---- MODULE Spec2Model ----
(***************************************************************************)
(* The chat session store (Frontend/lib/chat-store.ts), the stream parser  *)
(* streamChat and the transport calls (Frontend/lib/api.ts), and the       *)
(* ChatInterface component's handleSubmit guard.                           *)
(*                                                                         *)
(* JavaScript runs one callback at a time: every action below is the code  *)
(* that runs between two suspension points (await) of one async call.      *)
(* Text is a sequence of one-character strings.  Message ids and           *)
(* timestamps (Date.now()) are not represented.                            *)
(***************************************************************************)
EXTENDS Integers, Sequences, FiniteSets, TLC

\* ---------------------------------------------------------------- bounds
MaxSends == 2      \* sendMessage calls in one run
MaxLoads == 1      \* conversations the component switches to
MaxReads == 2      \* reads that deliver bytes, per stream, one call at a time
MaxBusyReads == 1  \* the same, when several calls may be in flight
MaxLines == 2      \* lines in the text of one read
MaxEvents == 4     \* events and malformed lines in one stream
MaxSwitches == 3   \* conversations, when only switching is looked at

SendIds == 1..MaxSends
LoadIds == 1..MaxLoads         \* a load is named by the conversation it loads
SwitchIds == 1..MaxSwitches

\* ------------------------------------------------------------ input sets
NULL == 0                      \* currentConversationId: null (falsy, like 0)
NewConvId(s) == MaxLoads + s   \* the id the server gives the one send s creates
Texts == { <<>>, <<" ">>, <<"h">>, <<" ", "h">> }   \* what the user may type
StoreTexts == { <<>>, <<" ">>, <<"h">> }            \* what a caller may pass
ChunkTexts == { <<>>, <<"A">>, <<"B">> }            \* content of a chunk event
ErrNoUser == "User not authenticated"
ErrNoToken == "No auth token available"
ErrDetail == "Failed to send message"
ErrCreate == "Failed to create conversation"
ErrRead == "network error"
ErrBoom == "boom"

\* ---------------------------------------------------------------- state
VARIABLES
  state,       \* the zustand store: messages, isLoading, isStreaming,
               \* streamingMessage, currentConversationId
  sends,       \* the sendMessage calls: position, locals, history
  loads,       \* the loadConversation calls
  hasUser,     \* localStorage has 'user'
  hasToken     \* localStorage has 'access_token'

vars == <<state, sends, loads, hasUser, hasToken>>

\* zustand set(partial): merge the given fields into the state
SetState(st, partial) ==
  [f \in DOMAIN st |-> IF f \in DOMAIN partial THEN partial[f] ELSE st[f]]

InitialState ==
  [messages |-> <<>>, isLoading |-> FALSE, isStreaming |-> FALSE,
   streamingMessage |-> <<>>, currentConversationId |-> NULL]

Message(role, content) == [role |-> role, content |-> content]

\* String.prototype.trim on a text of spaces and letters
RECURSIVE TrimLeft(_)
TrimLeft(t) == IF t # <<>> /\ Head(t) = " " THEN TrimLeft(Tail(t)) ELSE t
RECURSIVE TrimRight(_)
TrimRight(t) ==
  IF t # <<>> /\ t[Len(t)] = " " THEN TrimRight(SubSeq(t, 1, Len(t) - 1)) ELSE t
Trim(t) == TrimRight(TrimLeft(t))

\* ------------------------------------------------- stream lines and reads
\* One line of a read's text after chunk.split('\n').  prefix: the line
\* starts with 'data: '.  json: what JSON.parse makes of the trimmed rest:
\* "empty" (nothing after the prefix), "bad" (a SyntaxError: malformed or
\* truncated JSON) or "ok" (an object with fields type, content, error).
\* frag: "" for a line that arrived whole in one read.
Line(prefix, json, type, content, error) ==
  [prefix |-> prefix, json |-> json, type |-> type, content |-> content,
   error |-> error, frag |-> ""]
ChunkLine(c) == Line(TRUE, "ok", "assistant_chunk", c, "")
CompleteLine == Line(TRUE, "ok", "assistant_complete", <<>>, "")
DoneLine == Line(TRUE, "ok", "done", <<>>, "")
ErrorLine == Line(TRUE, "ok", "error", <<>>, ErrBoom)
UnknownLine == Line(TRUE, "ok", "ping", <<>>, "")
MalformedLine == Line(TRUE, "bad", "", <<>>, "")
BlankLine == Line(TRUE, "empty", "", <<>>, "")
OtherLine == Line(FALSE, "bad", "", <<>>, "")   \* keep-alive, '', a line's tail

Lines ==
  {ChunkLine(c) : c \in ChunkTexts} \cup
  {CompleteLine, DoneLine, ErrorLine, UnknownLine, MalformedLine, BlankLine,
   OtherLine}
\* the lines that matter to the protocol, and the reads: any few of those,
\* or one line of any kind
CoreLines == {ChunkLine(<<"A">>), ChunkLine(<<"B">>), CompleteLine, DoneLine,
              ErrorLine, MalformedLine}
Reads ==
  UNION {[1..n -> CoreLines] : n \in 1..MaxLines} \cup {<<line>> : line \in Lines}

\* A read is whatever bytes have arrived, so it may end inside a line; the
\* text of the next read then starts with the rest of that line.  split('\n')
\* is applied to each read's text on its own: of a data line cut inside its
\* JSON, the first read's last piece is 'data: ' and truncated JSON, and the
\* next read's first piece does not start with 'data: '.  type and content
\* of a piece are those of the line it was cut from (history: the parser
\* cannot read them).
HeadFragment(line) == [line EXCEPT !.json = "bad", !.frag = "head"]
TailFragment(line) == [line EXCEPT !.prefix = FALSE, !.json = "bad", !.frag = "tail"]

\* reads of whole chunk and complete lines and of the pieces of chunk lines
SplitLines ==
  {ChunkLine(<<"A">>), ChunkLine(<<"B">>), CompleteLine,
   HeadFragment(ChunkLine(<<"A">>)), TailFragment(ChunkLine(<<"A">>))}
SplitReads == UNION {[1..n -> SplitLines] : n \in 1..MaxLines}

\* reads that carry exactly one event line each
EventLines == {ChunkLine(<<"A">>), CompleteLine, DoneLine, ErrorLine}
EventReads == {<<line>> : line \in EventLines}

\* ------------------------------------------------ callbacks of the store
\* A parser state p carries the store state (p.state), streamChat's local
\* fullMessage, the callbacks made so far (p.emitted) and whether streamChat
\* has returned (p.returned).
Emit(p, k, c) == Append(p.emitted, [k |-> k, c |-> c])

\* A plausible slip: the new text is put in front of the buffer.
onChunkPrepends(st, chunk) ==
  SetState(st, [streamingMessage |-> chunk \o st.streamingMessage])

\* onChunk
onChunk(st, chunk) ==
  SetState(st, [streamingMessage |-> st.streamingMessage \o chunk])

\* A plausible slip: the buffer is not cleared on completion.
onCompleteKeepsBuffer(st, fullMessage) ==
  SetState(st, [messages |-> Append(st.messages, Message("assistant", fullMessage)),
                isStreaming |-> FALSE,
                isLoading |-> FALSE])

\* onComplete
onComplete(st, fullMessage) ==
  SetState(st, [messages |-> Append(st.messages, Message("assistant", fullMessage)),
                streamingMessage |-> <<>>,
                isStreaming |-> FALSE,
                isLoading |-> FALSE])

\* onError: the set; the callback then throws new Error(error)
onError(st, error) ==
  SetState(st, [isLoading |-> FALSE, isStreaming |-> FALSE])

\* the catch block of the store's sendMessage
sendMessageCatch(st) ==
  SetState(st, [isLoading |-> FALSE, isStreaming |-> FALSE])

\* ------------------------------------------------------------ the parser
\* A plausible slip: no inner try/catch, the exception leaves the read loop.
InnerCatchLeavesLoop(p) == [p EXCEPT !.returned = TRUE]

\* The inner catch: whatever the try block threw is logged and dropped, and
\* the for loop goes on with the next line.
InnerCatch(p) == p

\* A plausible slip: `break` for `return`, which leaves the switch only.
DoneCaseBreaks(p) == [p EXCEPT !.emitted = Emit(p, "done", <<>>)]

\* case 'done': return.  No callback is made; the event is noted in
\* p.emitted as processed.
DoneCase(p) == [p EXCEPT !.returned = TRUE, !.emitted = Emit(p, "done", <<>>)]

\* The body of `for (const line of lines)` for one line.
ProcessLine(p, line) ==
  IF ~line.prefix THEN p
  ELSE IF line.json = "empty" THEN p                    \* continue
  ELSE IF line.json = "bad" THEN InnerCatch(p)          \* JSON.parse throws
  ELSE IF line.type = "assistant_chunk" THEN
         IF line.content # <<>>
         THEN [p EXCEPT !.fullMessage = p.fullMessage \o line.content,
                        !.state = onChunk(p.state, line.content),
                        !.emitted = Emit(p, "chunk", line.content)]
         ELSE p
  ELSE IF line.type = "assistant_complete" THEN
         [p EXCEPT !.state = onComplete(p.state, p.fullMessage),
                   !.emitted = Emit(p, "complete", p.fullMessage)]
  ELSE IF line.type = "done" THEN DoneCase(p)
  ELSE IF line.type = "error" THEN
         \* onError throws inside the inner try
         InnerCatch([p EXCEPT !.state = onError(p.state, line.error),
                              !.emitted = Emit(p, "error", <<>>)])
  ELSE p

\* The for loop over the lines of one read; `return` leaves it.
RECURSIVE ProcessLines(_, _, _)
ProcessLines(lines, i, p) ==
  IF i > Len(lines) \/ p.returned THEN p
  ELSE ProcessLines(lines, i + 1, ProcessLine(p, lines[i]))

\* ------------------------------------------------ what the server sent
\* History kept per send: the protocol events and the malformed data lines
\* of the stream, each with the number of the read that carried it; a chunk
\* line cut in two by the end of read r is noted as "split".
IsEvent(line) ==
  /\ line.prefix /\ line.json = "ok"
  /\ \/ line.type = "assistant_chunk" /\ line.content # <<>>
     \/ line.type \in {"assistant_complete", "done", "error"}
IsMalformed(line) == line.prefix /\ line.json = "bad"

TraceItem(line, r) ==
  IF line.frag = "head" THEN [k |-> "split", c |-> line.content, r |-> r]
  ELSE IF IsMalformed(line) THEN [k |-> "malformed", c |-> <<>>, r |-> r]
  ELSE [k |-> IF line.type = "assistant_chunk" THEN "chunk"
              ELSE IF line.type = "assistant_complete" THEN "complete"
              ELSE line.type,
        c |-> line.content, r |-> r]

RECURSIVE TraceOf(_, _)
TraceOf(lines, r) ==
  IF lines = <<>> THEN <<>>
  ELSE IF IsEvent(Head(lines)) \/ IsMalformed(Head(lines))
       THEN <<TraceItem(Head(lines), r)>> \o TraceOf(Tail(lines), r)
       ELSE TraceOf(Tail(lines), r)

\* ------------------------------------------------------- the async calls
\* pc of a sendMessage call: "none" (not called), "creating" (awaiting
\* createConversation), "opening" (awaiting the stream request), "reading"
\* (awaiting reader.read()), "resolved", "rejected".  locked: the call holds
\* the reader of its response body.
NoSend ==
  [pc |-> "none", message |-> <<>>, conversationId |-> NULL,
   fullMessage |-> <<>>, reads |-> 0, error |-> "", locked |-> FALSE,
   cut |-> <<>>,                               \* the piece the last read ended with
   trace |-> <<>>, emitted |-> <<>>,           \* history of the stream
   before |-> <<>>,                            \* history: messages at the call
   reqCreate |-> FALSE, reqStream |-> FALSE,   \* history: requests issued
   created |-> 0]                              \* history: onConversationCreated calls

\* pc of loadConversation(l): "none" (not in flight), "fetching" (awaiting
\* getConversation).  superseded (history, kept while fetching): what the
\* user has asked for since this load was requested: "no" (nothing),
\* "asked" (another conversation, still being fetched), "loaded" (another
\* conversation, fetched), "failed" (another conversation, its fetch failed)
\* or "cleared" (clearChat).
NoLoad == [pc |-> "none", superseded |-> "no"]

\* history: the loads in flight other than l, marked from -> to
Mark(lds, l, from, to) ==
  [k \in DOMAIN lds |->
     IF k # l /\ lds[k].pc = "fetching" /\ lds[k].superseded \in from
     THEN [lds[k] EXCEPT !.superseded = to] ELSE lds[k]]
Kinds == {"no", "asked", "loaded", "failed", "cleared"}

Init ==
  /\ state = InitialState
  /\ sends = [s \in SendIds |-> NoSend]
  /\ loads = [l \in LoadIds |-> NoLoad]
  /\ hasUser \in BOOLEAN
  /\ hasToken \in BOOLEAN

Called == {s \in SendIds : sends[s].pc # "none"}
FreeSends == {s \in SendIds : sends[s].pc = "none"}

\* The rejection of streamChat reaching the store: streamChat's outer catch
\* calls onError (which sets and throws), the store's catch sets and rethrows.
RejectStream(st, snd, error) ==
  [state |-> sendMessageCatch(onError(st, error)),
   send |-> [snd EXCEPT !.pc = "rejected", !.error = error]]

\* A plausible slip: the new message is put first ([msg, ...state.messages]).
prependUserMessage(st, message) ==
  SetState(st, [messages |-> <<Message("user", message)>> \o st.messages])

\* set(state => ({ messages: [...state.messages, userMessage] }))
appendUserMessage(st, message) ==
  SetState(st, [messages |-> Append(st.messages, Message("user", message))])

\* chat-store sendMessage from the user-message append to streamChat's
\* first await (api sendMessage: the token check, then the stream request)
AppendAndOpen(st, snd) ==
  LET st1 == appendUserMessage(st, snd.message)
      st2 == SetState(st1, [streamingMessage |-> <<>>])
  IN IF ~hasToken
     THEN RejectStream(st2, snd, ErrNoToken)
     ELSE [state |-> st2,
           send |-> [snd EXCEPT !.pc = "opening", !.reqStream = TRUE]]

\* chat-store sendMessage(message), up to its first await
sendMessage(s, message) ==
  LET st0 == SetState(state, [isLoading |-> TRUE, isStreaming |-> TRUE])
      snd == [NoSend EXCEPT !.message = message,
                            !.conversationId = state.currentConversationId,
                            !.before = state.messages]
      r == IF ~hasUser
           THEN [state |-> sendMessageCatch(st0),
                 send |-> [snd EXCEPT !.pc = "rejected", !.error = ErrNoUser]]
           ELSE IF snd.conversationId = NULL
           THEN [state |-> st0,
                 send |-> [snd EXCEPT !.pc = "creating", !.reqCreate = TRUE]]
           ELSE AppendAndOpen(st0, snd)
  IN /\ state' = r.state
     /\ sends' = [sends EXCEPT ![s] = r.send]
     /\ UNCHANGED <<loads, hasUser, hasToken>>

\* a caller of the store other than the form: any text, any time
StoreSend(T) ==
  \E message \in T :
    /\ FreeSends # {}
    /\ sendMessage(CHOOSE s \in FreeSends : \A t \in FreeSends : s <= t, message)

\* ChatInterface handleSubmit: the form's guard, then sendMessage(input.trim())
handleSubmit ==
  \E input \in Texts :
    /\ FreeSends # {}
    /\ IF Trim(input) = <<>> \/ state.isLoading \/ state.isStreaming
       THEN UNCHANGED vars
       ELSE sendMessage(CHOOSE s \in FreeSends : \A t \in FreeSends : s <= t,
                        Trim(input))

\* createConversation resolves with a new conversation
CreateOk(s) ==
  LET id == NewConvId(s) IN
    /\ sends[s].pc = "creating"
    /\ LET st1 == SetState(state, [currentConversationId |-> id])
           snd == [sends[s] EXCEPT !.conversationId = id,
                                   !.created = sends[s].created + 1]
           r == AppendAndOpen(st1, snd)
       IN /\ state' = r.state
          /\ sends' = [sends EXCEPT ![s] = r.send]
    /\ UNCHANGED <<loads, hasUser, hasToken>>

\* createConversation rejects: non-success response, or 401 in apiCall
\* (which also removes the token)
CreateFail(s) ==
  \E unauthorized \in BOOLEAN :
    /\ sends[s].pc = "creating"
    /\ state' = sendMessageCatch(state)
    /\ sends' = [sends EXCEPT ![s].pc = "rejected",
                              ![s].error = IF unauthorized THEN "Unauthorized"
                                           ELSE ErrCreate]
    /\ hasToken' = IF unauthorized THEN FALSE ELSE hasToken
    /\ UNCHANGED <<loads, hasUser>>

\* A plausible slip: no finally block, the reader is never released.
FinallyMissing(snd) == snd

\* finally { reader.releaseLock() }
Finally(snd) == [snd EXCEPT !.locked = FALSE]

\* the stream request succeeds: getReader(), first reader.read()
OpenOk(s) ==
  /\ sends[s].pc = "opening"
  /\ sends' = [sends EXCEPT ![s].pc = "reading", ![s].locked = TRUE]
  /\ UNCHANGED <<state, loads, hasUser, hasToken>>

\* the stream request fails: non-success status, or no body
OpenFail(s) ==
  /\ sends[s].pc = "opening"
  /\ LET r == RejectStream(state, sends[s], ErrDetail)
     IN /\ state' = r.state
        /\ sends' = [sends EXCEPT ![s] = r.send]
  /\ UNCHANGED <<loads, hasUser, hasToken>>

\* The texts a read can have after a read that ended with the piece in cut
\* (none: <<>>): it starts with the rest of that line and with no other
\* tail, and only its last line can be cut short.
WellCut(cut, lines) ==
  /\ IF cut = <<>> THEN lines[1].frag # "tail"
                   ELSE lines[1] = TailFragment(cut[1])
  /\ \A i \in 2..Len(lines) : lines[i].frag # "tail"
  /\ \A i \in 1..(Len(lines) - 1) : lines[i].frag # "head"

\* reader.read() resolves with bytes: decode, split, run the for loop
ReadValue(s, R, max) ==
  \E lines \in R :
    /\ sends[s].pc = "reading"
    /\ sends[s].reads < max
    /\ Len(sends[s].trace) + Len(TraceOf(lines, 0)) <= MaxEvents
    /\ WellCut(sends[s].cut, lines)
    /\ LET r == sends[s].reads + 1
           p0 == [state |-> state, fullMessage |-> sends[s].fullMessage,
                  emitted |-> sends[s].emitted, returned |-> FALSE]
           p == ProcessLines(lines, 1, p0)
           snd == [sends[s] EXCEPT
                     !.pc = IF p.returned THEN "resolved" ELSE "reading",
                     !.fullMessage = p.fullMessage,
                     !.emitted = p.emitted,
                     !.reads = r,
                     !.cut = IF lines[Len(lines)].frag = "head"
                             THEN <<lines[Len(lines)]>> ELSE <<>>,
                     !.trace = sends[s].trace \o TraceOf(lines, r)]
       IN /\ state' = p.state
          /\ sends' = [sends EXCEPT ![s] = IF p.returned THEN Finally(snd) ELSE snd]
    /\ UNCHANGED <<loads, hasUser, hasToken>>

\* reader.read() resolves with done: break, release, resolve
ReadDone(s) ==
  /\ sends[s].pc = "reading"
  /\ sends' = [sends EXCEPT ![s] = Finally([sends[s] EXCEPT !.pc = "resolved"])]
  /\ UNCHANGED <<state, loads, hasUser, hasToken>>

\* reader.read() rejects: release, streamChat's outer catch
ReadFail(s) ==
  /\ sends[s].pc = "reading"
  /\ LET r == RejectStream(state, Finally(sends[s]), ErrRead)
     IN /\ state' = r.state
        /\ sends' = [sends EXCEPT ![s] = r.send]
  /\ UNCHANGED <<loads, hasUser, hasToken>>

\* the messages getConversation returns for a conversation
ServerMessages(id) ==
  IF id = 1 THEN <<[role |-> "user", content |-> <<"h">>],
                   [role |-> "assistant", content |-> <<"B">>]>>
  ELSE <<[role |-> "user", content |-> <<"h">>]>>

\* chat-store loadConversation(conversationId), up to its await
loadConversation(l) ==
  /\ loads[l].pc = "none"
  /\ LET st0 == SetState(state, [isLoading |-> TRUE])
     IN IF ~hasUser
        THEN /\ state' = SetState(st0, [isLoading |-> FALSE])
             /\ loads' = loads
        ELSE /\ state' = st0
             /\ loads' = Mark([loads EXCEPT ![l].pc = "fetching"], l, Kinds, "asked")
  /\ UNCHANGED <<sends, hasUser, hasToken>>

\* getConversation resolves: the transcript is replaced
LoadOk(l) ==
  /\ loads[l].pc = "fetching"
  /\ state' = SetState(state, [messages |-> ServerMessages(l),
                               currentConversationId |-> l,
                               isLoading |-> FALSE])
  /\ loads' = [Mark(loads, l, IF loads[l].superseded = "no" THEN {"asked"} ELSE {},
                    "loaded") EXCEPT ![l] = NoLoad]
  /\ UNCHANGED <<sends, hasUser, hasToken>>

\* getConversation rejects: non-success response, or 401 in apiCall
LoadFail(l) ==
  \E unauthorized \in BOOLEAN :
    /\ loads[l].pc = "fetching"
    /\ state' = SetState(state, [isLoading |-> FALSE])
    /\ loads' = [Mark(loads, l, IF loads[l].superseded = "no" THEN {"asked"} ELSE {},
                      "failed") EXCEPT ![l] = NoLoad]
    /\ hasToken' = IF unauthorized THEN FALSE ELSE hasToken
    /\ UNCHANGED <<sends, hasUser>>

\* chat-store clearChat (the Clear Chat button, or the effect's else branch)
clearChat ==
  /\ state' = SetState(state, [messages |-> <<>>, streamingMessage |-> <<>>,
                               currentConversationId |-> NULL])
  /\ loads' = Mark(loads, NULL, Kinds, "cleared")
  /\ UNCHANGED <<sends, hasUser, hasToken>>

\* ------------------------------------------------------ specifications
OpenStep ==
  \E s \in SendIds : CreateOk(s) \/ CreateFail(s) \/ OpenOk(s) \/ OpenFail(s)

\* streams whose reads carry one event line each
StreamStep ==
  \E s \in SendIds : ReadValue(s, EventReads, MaxBusyReads) \/ ReadDone(s) \/ ReadFail(s)

\* streams whose reads carry any lines
AnyStreamStep ==
  \E s \in SendIds : ReadValue(s, Reads, MaxReads) \/ ReadDone(s) \/ ReadFail(s)

LoadStep == \E l \in LoadIds : loadConversation(l) \/ LoadOk(l) \/ LoadFail(l)

\* the program: the store driven by the ChatInterface component
Next == handleSubmit \/ OpenStep \/ StreamStep \/ LoadStep \/ clearChat
Spec == Init /\ [][Next]_vars

\* the store under a caller that does not go through the form
NextStore ==
  StoreSend(StoreTexts) \/ OpenStep \/ StreamStep \/ LoadStep \/ clearChat
SpecStore == Init /\ [][NextStore]_vars

\* one submit on an idle session (new, or a loaded conversation), and its
\* stream with reads of any lines
IdleSessions ==
  {InitialState,
   SetState(InitialState, [messages |-> ServerMessages(1),
                           currentConversationId |-> 1])}
InitStream ==
  /\ state \in IdleSessions
  /\ sends = [s \in SendIds |-> NoSend]
  /\ loads = [l \in LoadIds |-> NoLoad]
  /\ hasUser \in BOOLEAN
  /\ hasToken \in BOOLEAN
FirstSubmit == Called = {} /\ handleSubmit
NextStream == FirstSubmit \/ OpenStep \/ AnyStreamStep
SpecStream == InitStream /\ [][NextStream]_vars

\* the same, where a pending await is eventually resumed: the responses
\* arrive, the reads return and the stream ends
FairSpecStream == SpecStream /\ WF_vars(NextStream)

\* the same, with streams whose reads may end inside a chunk line
SplitStreamStep ==
  \E s \in SendIds : ReadValue(s, SplitReads, MaxReads) \/ ReadDone(s) \/ ReadFail(s)
NextSplit == FirstSubmit \/ OpenStep \/ SplitStreamStep
SpecSplit == InitStream /\ [][NextSplit]_vars

\* the form and the streams of its sends, one event line per read, with no
\* switch and no clear
PairStreamStep ==
  \E s \in SendIds : ReadValue(s, EventReads, MaxReads) \/ ReadDone(s) \/ ReadFail(s)
NextPair == handleSubmit \/ OpenStep \/ PairStreamStep
SpecPair == Init /\ [][NextPair]_vars

\* the component switching between conversations and clearing, no send
InitLoad ==
  /\ state = InitialState
  /\ sends = [s \in SendIds |-> NoSend]
  /\ loads = [l \in SwitchIds |-> NoLoad]
  /\ hasUser \in BOOLEAN
  /\ hasToken \in BOOLEAN
SwitchStep == \E l \in SwitchIds : loadConversation(l) \/ LoadOk(l) \/ LoadFail(l)
NextLoad == SwitchStep \/ clearChat
SpecLoad == InitLoad /\ [][NextLoad]_vars

\* ------------------------------------------------------------ properties
Idle(st) == ~st.isLoading /\ ~st.isStreaming

IsValidEvent(e) == e.k \notin {"malformed", "split"}
Events(s) == SelectSeq(sends[s].trace, IsValidEvent)
InFlight == {s \in SendIds : sends[s].pc \in {"creating", "opening", "reading"}}

\* the events of a stream that is chunk* complete, then done or nothing
ChunksThenComplete(ev) ==
  \E n \in 1..Len(ev) :
    /\ ev[n].k = "complete"
    /\ \A i \in 1..(n - 1) : ev[i].k = "chunk"
    /\ \/ Len(ev) = n
       \/ Len(ev) = n + 1 /\ ev[n + 1].k = "done"

\* the events of a stream that is chunk+ error
ChunksThenError(ev) ==
  /\ Len(ev) >= 2
  /\ ev[Len(ev)].k = "error"
  /\ \A i \in 1..(Len(ev) - 1) : ev[i].k = "chunk"

RECURSIVE ConcatChunks(_)
ConcatChunks(ev) ==
  IF ev = <<>> THEN <<>>
  ELSE (IF Head(ev).k = "chunk" THEN Head(ev).c ELSE <<>>) \o ConcatChunks(Tail(ev))

\* C1: a single send on an idle session whose stream is chunks, one
\* complete, then done or close: once it has resolved, the transcript is the
\* one before the call plus the user message plus exactly one assistant
\* message holding the chunks in stream order, the buffer is empty and both
\* flags are false.
C1_ChunksThenCompleteAppendOne ==
  \A s \in SendIds :
    (sends[s].pc = "resolved" /\ ChunksThenComplete(Events(s))) =>
      /\ state.messages = sends[s].before \o
           <<Message("user", sends[s].message),
             Message("assistant", ConcatChunks(Events(s)))>>
      /\ state.streamingMessage = <<>>
      /\ Idle(state)

C1_Witness ==
  \E s \in SendIds :
    /\ sends[s].pc = "resolved"
    /\ [i \in 1..Len(Events(s)) |-> Events(s)[i].k] =
         <<"chunk", "chunk", "complete", "done">>
    /\ state.messages[Len(state.messages)] = Message("assistant", <<"A", "B">>)
    /\ Len(state.messages) = Len(sends[s].before) + 2

\* C2: a send whose stream is one or more chunks and then an error event:
\* no assistant message is appended, the buffer is empty, both flags are
\* false and the sendMessage promise has rejected with the event's message.
C2_ErrorEventRejects ==
  \A s \in SendIds :
    ChunksThenError(Events(s)) =>
      /\ state.messages = sends[s].before \o <<Message("user", sends[s].message)>>
      /\ state.streamingMessage = <<>>
      /\ Idle(state)
      /\ sends[s].pc = "rejected"
      /\ sends[s].error = ErrBoom

\* C3: a send whose stream is only a done event: once it has finished no
\* assistant message has been appended and both flags are false.
C3_DoneOnlyIdle ==
  \A s \in SendIds :
    (sends[s].pc = "resolved" /\ Len(Events(s)) = 1 /\ Events(s)[1].k = "done") =>
      /\ state.messages = sends[s].before \o <<Message("user", sends[s].message)>>
      /\ Idle(state)

\* C4: a sendMessage call made while isLoading or isStreaming is true
\* appends nothing, leaves the buffer alone and issues no request.
C4_BusySendIgnored ==
  [][\A s \in SendIds :
       (sends[s].pc = "none" /\ sends'[s].pc # "none" /\ ~Idle(state)) =>
         /\ state'.messages = state.messages
         /\ state'.streamingMessage = state.streamingMessage
         /\ ~sends'[s].reqCreate /\ ~sends'[s].reqStream]_vars

\* C5: sendMessage with a text that is empty or only whitespace issues no
\* request and changes nothing in the store.
C5_BlankSendRejected ==
  [][\A s \in SendIds :
       (sends[s].pc = "none" /\ sends'[s].pc # "none"
          /\ Trim(sends'[s].message) = <<>>) =>
         /\ state' = state
         /\ ~sends'[s].reqCreate /\ ~sends'[s].reqStream]_vars

\* C6: clearChat, in any state, leaves an empty transcript, an empty buffer,
\* no conversation id and both flags false.
C6_ClearYieldsInitial ==
  [][clearChat => state' = InitialState]_vars

\* C7: a loadConversation that fails (no user, or the fetch rejects) leaves
\* transcript and currentConversationId as they were, and both flags are
\* false when it finishes.
C7_LoadFailureSoft ==
  [][\A l \in LoadIds :
       (LoadFail(l) \/ (loadConversation(l) /\ ~hasUser)) =>
         /\ state'.messages = state.messages
         /\ state'.currentConversationId = state.currentConversationId
         /\ Idle(state')]_vars

\* C8: whenever the buffer is non-empty, isStreaming is true (so the buffer
\* is empty whenever both flags are false).
C8_BufferOnlyWhileStreaming ==
  state.streamingMessage # <<>> => state.isStreaming

\* C9: with sends issued through handleSubmit only, at most one send is
\* between its call and the end of its read loop.
C9_OneOutstandingSend ==
  Cardinality(InFlight) <= 1

\* what the callbacks and the trace have in common: the kind, and the text
\* of a chunk
Shape(e) == [k |-> e.k, c |-> IF e.k = "chunk" THEN e.c ELSE <<>>]
Shapes(seq) == [i \in 1..Len(seq) |-> Shape(seq[i])]
RECURSIVE UpToDone(_)
UpToDone(ev) ==
  IF ev = <<>> THEN <<>>
  ELSE IF Head(ev).k = "done" THEN <<Head(ev)>>
  ELSE <<Head(ev)>> \o UpToDone(Tail(ev))
HasMalformed(s) == \E i \in 1..Len(sends[s].trace) : sends[s].trace[i].k = "malformed"

\* C10: on a stream that carried malformed data lines, the callbacks made
\* are exactly the valid events of the stream, in order, up to the first
\* done; and such a send is rejected only by a failing read.
C10_MalformedLineSkipped ==
  \A s \in SendIds :
    HasMalformed(s) =>
      /\ Shapes(sends[s].emitted) = Shapes(UpToDone(Events(s)))
      /\ sends[s].pc = "rejected" => sends[s].error = ErrRead

\* a malformed line followed by a chunk in the same read and by a chunk in
\* the next read, both delivered
C10_Witness ==
  \E s \in SendIds :
    /\ Len(sends[s].trace) = 3
    /\ sends[s].trace[1].k = "malformed"
    /\ sends[s].trace[2].k = "chunk" /\ sends[s].trace[2].r = sends[s].trace[1].r
    /\ sends[s].trace[3].k = "chunk" /\ sends[s].trace[3].r > sends[s].trace[1].r
    /\ Len(sends[s].emitted) = 2
    /\ state.streamingMessage = sends[s].trace[2].c \o sends[s].trace[3].c

\* the callbacks of a send so far include no onComplete
NoComplete(em) == \A i \in 1..Len(em) : em[i].k # "complete"

C12_IdAssignedOncePerSession ==
  [][\A s \in SendIds :
       /\ (sends[s].pc = "none" /\ sends'[s].reqCreate) =>
            state.currentConversationId = NULL
       /\ CreateOk(s) =>
            /\ state.currentConversationId = NULL
            /\ state'.currentConversationId = NewConvId(s)
            /\ sends'[s].created = 1
       /\ (sends[s].pc = "none" /\ sends'[s].pc # "none" /\ ~sends'[s].reqCreate) =>
            sends'[s].conversationId = state.currentConversationId
       /\ ~sends'[s].reqCreate => sends'[s].created = 0]_vars

\* the errors of createConversation and of the stream request
SetupErrors == {ErrCreate, "Unauthorized", ErrNoToken, ErrDetail}

\* C13: a send that has failed in createConversation or in the stream
\* request (no token, or a non-success response) has rejected, both flags
\* are false and the transcript is the one the send found.
C13_SetupFailureAppendsNothing ==
  \A s \in SendIds :
    (sends[s].pc = "rejected" /\ sends[s].error \in SetupErrors) =>
      /\ Idle(state)
      /\ state.messages = sends[s].before

\* C14: when loadConversation(l) succeeds the transcript is exactly the
\* fetched messages, currentConversationId is l and both flags are false,
\* whatever they were before.
C14_LoadReplacesAndIdles ==
  [][\A l \in LoadIds :
       LoadOk(l) =>
         /\ state'.messages = ServerMessages(l)
         /\ state'.currentConversationId = l
         /\ Idle(state')]_vars

\* C15: once an error event has been delivered for a send, it is the last
\* callback of that send's stream and the send has rejected.
C15_ErrorEventTerminates ==
  \A s \in SendIds :
    (\E i \in 1..Len(sends[s].emitted) : sends[s].emitted[i].k = "error") =>
      /\ sends[s].emitted[Len(sends[s].emitted)].k = "error"
      /\ sends[s].pc = "rejected"

\* C16: once a done event has been processed it is the last thing the
\* parser did for that send: no callback follows it, it came in the last
\* read taken, and the send has resolved.
C16_DoneStopsParser ==
  \A s \in SendIds :
    (\E i \in 1..Len(sends[s].emitted) : sends[s].emitted[i].k = "done") =>
      /\ sends[s].emitted[Len(sends[s].emitted)].k = "done"
      /\ \A i \in 1..(Len(sends[s].emitted) - 1) : sends[s].emitted[i].k # "done"
      /\ \A i \in 1..Len(sends[s].trace) :
           sends[s].trace[i].k = "done" => sends[s].trace[i].r = sends[s].reads
      /\ sends[s].pc = "resolved"

\* a read whose text has a chunk line after the done line: the chunk is in
\* the stream and not in the buffer
C16_Witness ==
  \E s \in SendIds :
    /\ Shapes(sends[s].trace) = <<[k |-> "done", c |-> <<>>],
                                  [k |-> "chunk", c |-> <<"A">>]>>
    /\ Shapes(sends[s].emitted) = <<[k |-> "done", c |-> <<>>]>>
    /\ state.streamingMessage = <<>>
    /\ sends[s].pc = "resolved"

\* C17: a send holds the reader exactly while it awaits reader.read(); a
\* send that has resolved or rejected, by whatever path, has released it.
C17_ReaderReleased ==
  \A s \in SendIds :
    /\ sends[s].locked <=> sends[s].pc = "reading"
    /\ sends[s].pc \in {"resolved", "rejected"} => ~sends[s].locked

\* a stream left by a failing read after an error event whose callback threw
C17_Witness ==
  \E s \in SendIds :
    /\ sends[s].pc = "rejected" /\ sends[s].error = ErrRead
    /\ \E i \in 1..Len(sends[s].emitted) : sends[s].emitted[i].k = "error"
    /\ sends[s].reads = 2
    /\ ~sends[s].locked

\* C18: a sendMessage call made while localStorage has no access_token has
\* rejected by its first await and has issued neither the
\* createConversation request nor the stream request.
C18_NoTokenNoRequest ==
  [][\A s \in SendIds :
       (sends[s].pc = "none" /\ sends'[s].pc # "none" /\ ~hasToken) =>
         /\ sends'[s].pc = "rejected"
         /\ ~sends'[s].reqCreate
         /\ ~sends'[s].reqStream]_vars

\* C19: in the step in which a send rejects, whatever the cause, both flags
\* are false and the buffer is empty.
C19_RejectedIdleAndEmpty ==
  [][\A s \in SendIds :
       (sends[s].pc # "rejected" /\ sends'[s].pc = "rejected") =>
         /\ Idle(state')
         /\ state'.streamingMessage = <<>>]_vars

\* the events of the text of a stream, whatever the reads it came in: the
\* whole event lines and the chunk lines that came in two pieces
IsTextEvent(e) == e.k # "malformed"
AsWhole(e) == [k |-> IF e.k = "split" THEN "chunk" ELSE e.k, c |-> e.c]
TextEvents(s) ==
  LET ev == SelectSeq(sends[s].trace, IsTextEvent)
  IN [i \in 1..Len(ev) |-> AsWhole(ev[i])]

\* C20: once every line begun has arrived in full, the callbacks made for a
\* send are the events of the stream's text, in order, up to the first
\* done, wherever the reads cut the text.
C20_ReadBoundariesIrrelevant ==
  \A s \in SendIds :
    sends[s].cut = <<>> =>
      Shapes(sends[s].emitted) = Shapes(UpToDone(TextEvents(s)))

\* the first onComplete or error callback of a send, 0 if there is none
FirstTerminal(em) ==
  IF \E i \in 1..Len(em) : em[i].k \in {"complete", "error"}
  THEN CHOOSE i \in 1..Len(em) :
         /\ em[i].k \in {"complete", "error"}
         /\ \A j \in 1..(i - 1) : em[j].k \notin {"complete", "error"}
  ELSE 0

\* C21: a send has appended its user message and at most one assistant
\* message; after its first complete the transcript and the empty buffer
\* stay as that complete left them, and after a first error nothing is
\* appended.
C21_OneAssistantMessagePerSend ==
  \A s \in SendIds :
    LET em == sends[s].emitted
        n == FirstTerminal(em)
        user == Message("user", sends[s].message)
    IN sends[s].pc # "none" =>
         /\ Len(state.messages) <= Len(sends[s].before) + 2
         /\ (n > 0 /\ em[n].k = "complete") =>
              /\ state.messages =
                   sends[s].before \o <<user, Message("assistant", em[n].c)>>
              /\ state.streamingMessage = <<>>
         /\ (n > 0 /\ em[n].k = "error") =>
              state.messages = sends[s].before \o <<user>>

\* C22: a read of a send whose conversation is no longer the session's
\* (another one was loaded, or the chat was cleared) changes neither the
\* transcript nor the buffer.
C22_SwitchedSessionUntouched ==
  [][\A s \in SendIds :
       (/\ sends[s].pc = "reading"
        /\ sends'[s].reads > sends[s].reads
        /\ state.currentConversationId # sends[s].conversationId) =>
         /\ state'.messages = state.messages
         /\ state'.streamingMessage = state.streamingMessage]_vars

\* C23: when the fetch of a conversation returns after the user has since
\* got another conversation loaded, or has cleared the chat, and no other
\* fetch is in flight, the session stays what that later request made it
\* (the other conversation's transcript and id, or the cleared session).
C23_LatestRequestWins ==
  [][\A l \in DOMAIN loads :
       (/\ LoadOk(l)
        /\ loads[l].superseded \in {"loaded", "cleared"}
        /\ \A k \in DOMAIN loads : k # l => loads[k].pc = "none") =>
         /\ state'.messages = state.messages
         /\ state'.currentConversationId = state.currentConversationId]_vars

\* C24: the step that issues the stream request of a send has just
\* appended its user message, before any callback of that send; and, with
\* no load or clear, the step that appends the send's assistant message
\* finds that user message last in the transcript.
C24_UserMessageFirst ==
  [][\A s \in SendIds :
       LET user == Message("user", sends'[s].message) IN
       /\ (~sends[s].reqStream /\ sends'[s].reqStream) =>
            /\ state'.messages = Append(state.messages, user)
            /\ sends'[s].emitted = <<>>
       /\ (NoComplete(sends[s].emitted) /\ ~NoComplete(sends'[s].emitted)) =>
            /\ state.messages # <<>>
            /\ state.messages[Len(state.messages)] = user]_vars

IsPrefix(a, b) == Len(a) <= Len(b) /\ SubSeq(b, 1, Len(a)) = a

\* C25: every step other than clearChat and a successful load leaves the
\* transcript it found as a prefix of the transcript it leaves.
C25_TranscriptAppendOnly ==
  [][\/ IsPrefix(state.messages, state'.messages)
     \/ clearChat
     \/ \E l \in DOMAIN loads : LoadOk(l)]_vars

\* a send on a loaded conversation has added its user message and a reply
\* after the messages that were there
C25_Witness ==
  \E s \in SendIds :
    /\ sends[s].before # <<>>
    /\ state.messages =
         sends[s].before \o <<Message("user", sends[s].message),
                              Message("assistant", <<"A">>)>>

\* C26: once the sendMessage promise of a send has settled (its stream has
\* closed, or given done, or failed), both flags are eventually false.
C26_EndedSendGoesIdle ==
  \A s \in SendIds :
    (sends[s].pc \in {"resolved", "rejected"}) ~> Idle(state)

====
